---------------------------- MODULE Spec2Model ----------------------------
(***************************************************************************)
(* Model of the MBR / GPT partition-table decoder (src/src/lib.rs,         *)
(* src/src/mbr.rs, src/src/gpt.rs).                                        *)
(*                                                                         *)
(* Bytes are naturals in 0..255.  A block of bytes is a sequence; the byte *)
(* at offset o of a block b is b[o + 1].  u16 values are plain naturals.   *)
(* u32 and u64 values are kept as their little-endian byte sequences (of   *)
(* length 4 and 8): the arithmetic on them below is the fixed-width,       *)
(* wrapping arithmetic of the release build, and no value is truncated to  *)
(* fit TLC's 32-bit integers.                                              *)
(***************************************************************************)
EXTENDS Naturals, Integers, Sequences, FiniteSets, TLC

(***************************************************************************)
(* Byte blocks and little-endian numbers                                   *)
(***************************************************************************)

\* b[lo..hi)
Slice(b, lo, hi) == [i \in 1..(hi - lo) |-> b[lo + i]]

Zeros(n) == <<>> \o [i \in 1..n |-> 0]

\* n < 2^31 as a little-endian number of w bytes
RECURSIVE Le(_, _)
Le(n, w) == IF w = 0 THEN <<>> ELSE <<n % 256>> \o Le(n \div 256, w - 1)

U32(n) == Le(n, 4)

U64(n) == Le(n, 8)

\* `a as u64` for a u32 a
Widen(a) == a \o Zeros(8 - Len(a))

U32Max == <<255, 255, 255, 255>>

U64Max == <<255, 255, 255, 255, 255, 255, 255, 255>>

\* isize::MAX on a 64-bit target
IsizeMax == <<255, 255, 255, 255, 255, 255, 255, 127>>

\* LittleEndian::read_u16 / read_u32 / read_u64 at offset off of block b
read_u16(b, off) == b[off + 1] + 256 * b[off + 2]

read_u32(b, off) == Slice(b, off, off + 4)

read_u64(b, off) == Slice(b, off, off + 8)

RECURSIVE LtFrom(_, _, _)
LtFrom(a, b, i) ==
    IF i = 0 THEN FALSE
    ELSE IF a[i] # b[i] THEN a[i] < b[i]
    ELSE LtFrom(a, b, i - 1)

\* a < b, a <= b for numbers of the same width
Lt(a, b) == LtFrom(a, b, Len(a))

Leq(a, b) == ~Lt(b, a)

\* the value of a number known to be below 2^31
RECURSIVE ToNatFrom(_, _)
ToNatFrom(a, i) == IF i > Len(a) THEN 0 ELSE a[i] + 256 * ToNatFrom(a, i + 1)

ToNat(a) == ToNatFrom(a, 1)

\* a + b with carry c, wrapping at the width of a
RECURSIVE AddFrom(_, _, _, _)
AddFrom(a, b, i, c) ==
    IF i > Len(a) THEN <<>>
    ELSE LET s == a[i] + b[i] + c
         IN  <<s % 256>> \o AddFrom(a, b, i + 1, s \div 256)

wrapping_add(a, b) == AddFrom(a, b, 1, 0)

\* a - b with borrow c, wrapping at the width of a
RECURSIVE SubFrom(_, _, _, _)
SubFrom(a, b, i, c) ==
    IF i > Len(a) THEN <<>>
    ELSE LET d == a[i] - b[i] - c
         IN  <<(d + 256) % 256>> \o SubFrom(a, b, i + 1, IF d < 0 THEN 1 ELSE 0)

wrapping_sub(a, b) == SubFrom(a, b, 1, 0)

\* a * m for a natural m < 2^16: the digits, and the carry out of the top
RECURSIVE MulFrom(_, _, _, _)
MulFrom(a, m, i, c) ==
    IF i > Len(a) THEN <<>>
    ELSE LET p == a[i] * m + c
         IN  <<p % 256>> \o MulFrom(a, m, i + 1, p \div 256)

RECURSIVE MulCarry(_, _, _, _)
MulCarry(a, m, i, c) ==
    IF i > Len(a) THEN c ELSE MulCarry(a, m, i + 1, (a[i] * m + c) \div 256)

wrapping_mul(a, m) == MulFrom(a, m, 1, 0)

mul_overflows(a, m) == MulCarry(a, m, 1, 0) # 0

add_overflows(a, b) == Lt(wrapping_add(a, b), a)

\* a * 256^k, wrapping
ShiftBytes(a, k) == Zeros(k) \o SubSeq(a, 1, Len(a) - k)

\* u64::from(a) * u64::from(b) for u32 a, b: never wraps
RECURSIVE MulWideFrom(_, _, _)
MulWideFrom(a, b, i) ==
    IF i > Len(b) THEN Zeros(8)
    ELSE wrapping_add(ShiftBytes(wrapping_mul(a, b[i]), i - 1),
                      MulWideFrom(a, b, i + 1))

MulWide(a, b) == MulWideFrom(Widen(a), b, 1)

\* a / d for a natural 0 < d < 2^16, by long division from the top byte
RECURSIVE DivFrom(_, _, _, _)
DivFrom(a, d, i, r) ==
    IF i = 0 THEN <<>>
    ELSE LET n == r * 256 + a[i]
         IN  DivFrom(a, d, i - 1, n % d) \o <<n \div d>>

Div(a, d) == DivFrom(a, d, Len(a), 0)

\* fn all_zero(val: &[u8]) -> bool
all_zero(val) == \A i \in 1..Len(val) : val[i] = 0

(***************************************************************************)
(* crc::crc32::checksum_ieee: reflected CRC-32, polynomial 0xEDB88320,     *)
(* initial value and final xor 0xFFFFFFFF, computed byte by byte through   *)
(* the 256-entry table.  The register is a 4-byte little-endian number.    *)
(***************************************************************************)
Bit(n, k) == (n \div (2 ^ k)) % 2

\* a xor b for 4-bit a, b; the table is built once, as a tuple of tuples
XorNibble ==
    <<>> \o [a \in 1..16 |-> <<>> \o [b \in 1..16 |->
                 ((Bit(a - 1, 0) + Bit(b - 1, 0)) % 2)
               + ((Bit(a - 1, 1) + Bit(b - 1, 1)) % 2) * 2
               + ((Bit(a - 1, 2) + Bit(b - 1, 2)) % 2) * 4
               + ((Bit(a - 1, 3) + Bit(b - 1, 3)) % 2) * 8]]

\* a xor b for bytes a, b
Xor8(a, b) ==
    XorNibble[(a \div 16) + 1][(b \div 16) + 1] * 16
  + XorNibble[(a % 16) + 1][(b % 16) + 1]

Xor32(a, b) ==
    <<Xor8(a[1], b[1]), Xor8(a[2], b[2]), Xor8(a[3], b[3]), Xor8(a[4], b[4])>>

CrcPoly == <<32, 131, 184, 237>>

\* r >> 1 on the 4-byte register
Shr1(r) ==
    << (r[1] \div 2) + (r[2] % 2) * 128, (r[2] \div 2) + (r[3] % 2) * 128,
       (r[3] \div 2) + (r[4] % 2) * 128, r[4] \div 2 >>

RECURSIVE CrcBits(_, _)
CrcBits(r, k) ==
    IF k = 0 THEN r
    ELSE CHOOSE y \in { CrcBits(v, k - 1) :
                          v \in { IF r[1] % 2 = 1 THEN Xor32(Shr1(r), CrcPoly)
                                                   ELSE Shr1(r) } } : TRUE

\* entry n + 1 is the register after the byte n alone
CrcTable == <<>> \o [n \in 1..256 |-> CrcBits(<<n - 1, 0, 0, 0>>, 8)]

CrcStep(r, byte) ==
    Xor32(CrcTable[Xor8(r[1], byte) + 1], <<r[2], r[3], r[4], 0>>)

\* The register after the bytes data[lo..hi), lo < hi, taken in order.  The
\* range is split in two so that the evaluation stays shallow; the register
\* between the halves is bound as a value.
RECURSIVE CrcRange(_, _, _, _)
CrcRange(r, data, lo, hi) ==
    IF hi - lo = 1 THEN CrcStep(r, data[lo + 1])
    ELSE CHOOSE y \in { CrcRange(m[2], data, m[1], hi) :
                          m \in { <<mid, CrcRange(r, data, lo, mid)>> :
                                     mid \in {lo + (hi - lo) \div 2} } } : TRUE

\* CRC-32 of the first n bytes of data
checksum_ieee(data, n) ==
    Xor32(IF n = 0 THEN U32Max ELSE CrcRange(U32Max, data, 0, n), U32Max)

(***************************************************************************)
(* Data model: Partition, MBR, GPT (lib.rs) and the outcome of a call      *)
(***************************************************************************)
SECTOR_SIZE == 512

MAXIMUM_SECTOR_SIZE == 16384

PROTECTIVE_TYPE == 238

\* Option<Arc<T>>: <<>> is None, <<v>> is Some(v)
None == <<>>

Some(v) == <<v>>

Partition(id, start, count, mbr, gpt) ==
    [id |-> id, start_sector |-> start, number_of_sector |-> count,
     mbr |-> mbr, gpt |-> gpt]

\* anyhow::Result<Vec<Partition>>, and the two ways a call ends without one
Ok(part) == [kind |-> "Ok", msg |-> "", idx |-> 0, val |-> 0, part |-> part]

Err(msg, idx, val) ==
    [kind |-> "Err", msg |-> msg, idx |-> idx, val |-> val, part |-> <<>>]

IoError == [kind |-> "Io", msg |-> "io error", idx |-> 0, val |-> 0, part |-> <<>>]

Panic(msg) == [kind |-> "Panic", msg |-> msg, idx |-> 0, val |-> 0, part |-> <<>>]

NoResult == [kind |-> "None", msg |-> "", idx |-> 0, val |-> 0, part |-> <<>>]

(***************************************************************************)
(* mbr.rs: mbr_partition_table                                             *)
(***************************************************************************)
\* Slot entry_id of the boot sector: the error of a bad status byte, a skip
\* for type code 0, or the Partition to push.
\* (first two variants the properties must tell from the code: ids counted
\* from 0; the type code tested before the status byte)
mbr_slot_zero_based(sector, entry_id) ==
    LET entry_offset == 446 + entry_id * 16
        partition == SubSeq(sector, entry_offset + 1, entry_offset + 16)
        status == partition[1]
        type_code == partition[5]
    IN  IF status # 0 /\ status # 128
        THEN [kind |-> "err",
              err |-> Err("invalid status code in partition", entry_id, status)]
        ELSE IF type_code = 0 THEN [kind |-> "skip"]
        ELSE [kind |-> "push",
              p |-> Partition(entry_id,
                              Widen(read_u32(partition, 8)),
                              Widen(read_u32(partition, 12)),
                              Some([bootable |-> status = 128,
                                    type_code |-> type_code]),
                              None)]

mbr_slot_type_first(sector, entry_id) ==
    LET entry_offset == 446 + entry_id * 16
        partition == SubSeq(sector, entry_offset + 1, entry_offset + 16)
        status == partition[1]
        type_code == partition[5]
    IN  IF type_code = 0 THEN [kind |-> "skip"]
        ELSE IF status # 0 /\ status # 128
        THEN [kind |-> "err",
              err |-> Err("invalid status code in partition", entry_id, status)]
        ELSE [kind |-> "push",
              p |-> Partition(entry_id + 1,
                              Widen(read_u32(partition, 8)),
                              Widen(read_u32(partition, 12)),
                              Some([bootable |-> status = 128,
                                    type_code |-> type_code]),
                              None)]

mbr_slot(sector, entry_id) ==
    LET entry_offset == 446 + entry_id * 16
        partition == SubSeq(sector, entry_offset + 1, entry_offset + 16)
        status == partition[1]
        type_code == partition[5]
    IN  IF status # 0 /\ status # 128
        THEN [kind |-> "err",
              err |-> Err("invalid status code in partition", entry_id, status)]
        ELSE IF type_code = 0 THEN [kind |-> "skip"]
        ELSE [kind |-> "push",
              p |-> Partition(entry_id + 1,
                              Widen(read_u32(partition, 8)),
                              Widen(read_u32(partition, 12)),
                              Some([bootable |-> status = 128,
                                    type_code |-> type_code]),
                              None)]

\* the loop `for entry_id in 0..4`, from entry_id on, with the Vec so far
RECURSIVE mbr_loop(_, _, _)
mbr_loop(sector, entry_id, partitions) ==
    IF entry_id = 4 THEN Ok(partitions)
    ELSE LET slot == mbr_slot(sector, entry_id)
         IN  IF slot.kind = "err" THEN slot.err
             ELSE IF slot.kind = "skip"
             THEN mbr_loop(sector, entry_id + 1, partitions)
             ELSE mbr_loop(sector, entry_id + 1, Append(partitions, slot.p))

mbr_partition_table(sector) == mbr_loop(sector, 0, <<>>)

(***************************************************************************)
(* lib.rs: Partition::is_gpt                                               *)
(***************************************************************************)
\* a variant with `<` for `<=`, which the scheme property must tell apart
is_gpt_strict(p) ==
    IF p.mbr = None THEN FALSE
    ELSE IF ~p.mbr[1].bootable /\ p.mbr[1].type_code = PROTECTIVE_TYPE
    THEN p.id = 1 /\ Lt(p.start_sector, U64(MAXIMUM_SECTOR_SIZE))
    ELSE FALSE

is_gpt(p) ==
    IF p.mbr = None THEN FALSE
    ELSE IF ~p.mbr[1].bootable /\ p.mbr[1].type_code = PROTECTIVE_TYPE
    THEN p.id = 1 /\ Leq(p.start_sector, U64(MAXIMUM_SECTOR_SIZE))
    ELSE FALSE

(***************************************************************************)
(* gpt.rs: gpt_from_file, the header gates (lines 19-90)                   *)
(***************************************************************************)
EfiPart == <<69, 70, 73, 32, 80, 65, 82, 84>>

\* lines 36-40: the header block with bytes 0x10..0x14 set to zero
ZeroCrcField(h) == SubSeq(h, 1, 16) \o Zeros(4) \o SubSeq(h, 21, Len(h))

\* The locals of gpt_from_file read off the header block h.
HeaderLocals(h) ==
    [header_size      |-> read_u32(h, 12),
     header_crc       |-> read_u32(h, 16),
     first_usable_lba |-> read_u64(h, 40),
     last_usable_lba  |-> read_u64(h, 48),
     entries          |-> read_u32(h, 80),
     entry_size       |-> read_u32(h, 84)]

\* line 82: 2 + ((u64::from(entry_size) * u64::from(entries)) / sector_size)
FirstUsableFloor(entry_size, entries, sector_size) ==
    wrapping_add(U64(2), Div(MulWide(entry_size, entries), sector_size))

\* Lines 19-90 on the header block h as read: the error of the first failing
\* gate, the panic of an out-of-range slice, or NoResult when every gate
\* passes.  `&lba1[..header_size as usize]` (line 42) panics when header_size
\* exceeds the length of the block.
gpt_header(h, sector_size) ==
    LET l == HeaderLocals(h)
        z == ZeroCrcField(h)
    IN  IF SubSeq(h, 1, 8) # EfiPart
        THEN Err("bad EFI signature", 0, 0)
        ELSE IF SubSeq(h, 9, 12) # <<0, 0, 1, 0>>
        THEN Err("unsupported revision", 0, 0)
        ELSE IF Lt(l.header_size, U32(92))
        THEN Err("header too short", 0, 0)
        ELSE IF Lt(U32(Len(h)), l.header_size)
        THEN Panic("range end index out of range for slice")
        ELSE IF l.header_crc # checksum_ieee(z, ToNat(l.header_size))
        THEN Err("header checksum mismatch", 0, 0)
        ELSE IF read_u32(z, 20) # U32(0)
        THEN Err("unsupported data in reserved field 0x0c", 0, 0)
        ELSE IF read_u64(z, 24) # U64(1)
        THEN Err("current lba must be '1' for first header", 0, 0)
        ELSE IF Lt(l.last_usable_lba, l.first_usable_lba)
        THEN Err("usable lbas are backwards?!", 0, 0)
        ELSE IF read_u64(z, 72) # U64(2)
        THEN Err("starting lba must be '2' for first header", 0, 0)
        ELSE IF Lt(l.entry_size, U32(128))
        THEN Err("entry size is implausibly small", 0, 0)
        ELSE IF Lt(l.first_usable_lba,
                   FirstUsableFloor(l.entry_size, l.entries, sector_size))
        THEN Err("first usable lba is too low", 0, 0)
        ELSE IF ~all_zero(SubSeq(z, ToNat(l.header_size) + 1, Len(z)))
        THEN Err("reserved header tail is not all empty", 0, 0)
        ELSE NoResult

\* lines 36-40 are reached once the first three gates have passed
HeaderBlockAfter(h) ==
    IF /\ SubSeq(h, 1, 8) = EfiPart
       /\ SubSeq(h, 9, 12) = <<0, 0, 1, 0>>
       /\ ~Lt(read_u32(h, 12), U32(92))
    THEN ZeroCrcField(h) ELSE h

\* line 92: entry_size as usize * entries as usize, on a 64-bit target
\* (first a variant that assumes 128-byte entries)
table_len_fixed_entry(entry_size, entries) == MulWide(U32(128), entries)

table_len(entry_size, entries) == MulWide(entry_size, entries)

(***************************************************************************)
(* gpt.rs: gpt_from_file, the entry loop (lines 95-141)                    *)
(***************************************************************************)
\* lines 117-120: the 36 code units of the name field, up to the first zero
RECURSIVE take_while_nonzero(_, _)
take_while_nonzero(name_data, idx) ==
    IF idx = 36 THEN <<>>
    ELSE LET unit == read_u16(name_data, 2 * idx)
         IN  IF unit = 0 THEN <<>>
             ELSE <<unit>> \o take_while_nonzero(name_data, idx + 1)

\* String::from_utf16: the scalar values of the units from i on, or a failure
\* on an unpaired surrogate
RECURSIVE from_utf16(_, _)
from_utf16(units, i) ==
    IF i > Len(units) THEN [ok |-> TRUE, chars |-> <<>>]
    ELSE LET u == units[i]
         IN  IF u < 55296 \/ u > 57343
             THEN LET rest == from_utf16(units, i + 1)
                  IN  [ok |-> rest.ok, chars |-> <<u>> \o rest.chars]
             ELSE IF u >= 56320 \/ i = Len(units)
             THEN [ok |-> FALSE, chars |-> <<>>]
             ELSE IF units[i + 1] < 56320 \/ units[i + 1] > 57343
             THEN [ok |-> FALSE, chars |-> <<>>]
             ELSE LET rest == from_utf16(units, i + 2)
                  IN  [ok |-> rest.ok,
                       chars |-> <<65536 + (u - 55296) * 1024
                                         + (units[i + 1] - 56320)>>
                                 \o rest.chars]

\* line 110 (first a variant without the first_lba > last_lba test)
out_of_range_no_order(first_lba, last_lba, first_usable_lba, last_usable_lba) ==
    \/ Lt(first_lba, first_usable_lba)
    \/ Lt(last_usable_lba, last_lba)

out_of_range(first_lba, last_lba, first_usable_lba, last_usable_lba) ==
    \/ Lt(last_lba, first_lba)
    \/ Lt(first_lba, first_usable_lba)
    \/ Lt(last_usable_lba, last_lba)

\* line 133 (first a variant that numbers the pushed entries 1, 2, ...)
gpt_id_compacted(id, acc) == Len(acc) + 1

gpt_id(id, acc) == id + 1

\* Entry id of the table: a skip for an all-zero type_uuid, the error of a
\* range or name gate, or the Partition to push (acc is the Vec so far).
gpt_entry(tbl, id, entry_size, first_usable_lba, last_usable_lba, acc) ==
    LET entry == SubSeq(tbl, id * entry_size + 1, (id + 1) * entry_size)
        type_uuid == SubSeq(entry, 1, 16)
        partition_uuid == SubSeq(entry, 17, 32)
        first_lba == read_u64(entry, 32)
        last_lba == read_u64(entry, 40)
        attributes == SubSeq(entry, 49, 56)
        name_data == SubSeq(entry, 57, 128)
        name == from_utf16(take_while_nonzero(name_data, 0), 1)
    IN  IF all_zero(type_uuid) THEN [kind |-> "skip"]
        ELSE IF out_of_range(first_lba, last_lba,
                             first_usable_lba, last_usable_lba)
        THEN [kind |-> "err",
              err |-> Err("partition entry is out of range", 0, 0)]
        ELSE IF ~name.ok
        THEN [kind |-> "err",
              err |-> Err("partition has an invalid name", id, 0)]
        ELSE [kind |-> "push",
              p |-> Partition(gpt_id(id, acc),
                              first_lba,
                              wrapping_add(wrapping_sub(last_lba, first_lba),
                                           U64(1)),
                              None,
                              Some([type_uuid |-> type_uuid,
                                    partition_uuid |-> partition_uuid,
                                    attributes |-> attributes,
                                    name |-> name.chars]))]

\* the loop `for id in 0..entries as usize`, from id on, with the Vec so far
RECURSIVE gpt_loop(_, _, _, _, _, _, _)
gpt_loop(tbl, id, entries, entry_size, first_usable_lba, last_usable_lba, acc) ==
    IF id = entries THEN Ok(acc)
    ELSE LET e == gpt_entry(tbl, id, entry_size,
                            first_usable_lba, last_usable_lba, acc)
         IN  IF e.kind = "err" THEN e.err
             ELSE gpt_loop(tbl, id + 1, entries, entry_size,
                           first_usable_lba, last_usable_lba,
                           IF e.kind = "skip" THEN acc ELSE Append(acc, e.p))

(***************************************************************************)
(* lib.rs: Partition::to_builder.  The FileRanges of the view hold one     *)
(* mapping: the range [range_start, range_end) of the view is backed by    *)
(* the parent from byte `offset` on.                                       *)
(***************************************************************************)
to_builder(p) ==
    LET start == wrapping_mul(p.start_sector, 512)
        len == wrapping_add(start, wrapping_mul(p.number_of_sector, 512))
    IN  [range_start |-> U64(0), range_end |-> len, offset |-> start]

(***************************************************************************)
(* The byte sources of the model.  A source is read once per region, so    *)
(* its content is chosen when the region is read: the boot sector at       *)
(* [0, 512), the GPT header block at [512, 1024) and the entry table from  *)
(* 1024 on.  No source holds more than MaxTableBytes bytes after the       *)
(* header block; a longer read fails.                                      *)
(***************************************************************************)
MaxEntries == 2

MaxTableBytes == MaxEntries * 256

\* one 16-byte MBR slot; the CHS bytes are filled with non-zero values
MkSlot(status, type_code, start, count) ==
    <<status, 254, 255, 255, type_code, 254, 255, 255>> \o start \o count

SlotChoices ==
    { MkSlot(0, 0, U32(0), U32(0)),                  \* unused
      MkSlot(0, 238, U32(1), U32Max),                \* protective
      MkSlot(0, 238, U32(16384), U32(5)),            \* protective, at the limit
      MkSlot(0, 238, U32(16385), U32(5)),            \* one past the limit
      MkSlot(128, 238, U32(1), U32(5)),              \* bootable 0xEE
      MkSlot(0, 239, U32(1), U32(5)),                \* type 0xEF
      MkSlot(128, 131, U32(2048), U32(0)),           \* sector count 0
      MkSlot(0, 7, U32Max, U32(1)),                  \* start above 2^31
      MkSlot(1, 0, U32(0), U32(0)),                  \* bad status, unused
      MkSlot(129, 131, U32(63), U32(100)) }          \* bad status, used

BootCode == <<>> \o [i \in 1..446 |-> 144]

MkBootSector(s0, s1, s2, s3, sig) == BootCode \o s0 \o s1 \o s2 \o s3 \o sig

BootSectors ==
    { MkBootSector(s0, s1, s2, s3, <<85, 170>>) :
          s0 \in SlotChoices, s1 \in SlotChoices,
          s2 \in SlotChoices, s3 \in SlotChoices }
    \cup
    { MkBootSector(MkSlot(0, 238, U32(1), U32Max), MkSlot(0, 0, U32(0), U32(0)),
                   MkSlot(0, 0, U32(0), U32(0)), MkSlot(1, 0, U32(0), U32(0)),
                   sig) : sig \in {<<85, 0>>, <<0, 170>>, <<170, 85>>} }

\* ---- GPT header blocks ----
\* the fields of a header block; tail is 0, or the offset of a byte set to 1
BaseFields ==
    [sig |-> EfiPart, rev |-> <<0, 0, 1, 0>>, hsize |-> U32(92),
     crc |-> "good", resv |-> U32(0), cur |-> U64(1),
     fu |-> U64(34), lu |-> U64(40), pe |-> U64(2),
     entries |-> U32(1), esize |-> U32(128), tail |-> 0]

\* the block with the CRC field left zero
HeaderBody(f) ==
    LET head == f.sig \o f.rev \o f.hsize \o Zeros(4) \o f.resv \o f.cur
                \o U64(4096) \o f.fu \o f.lu
                \o <<1, 2, 3, 4, 5, 6, 7, 8, 9, 10, 11, 12, 13, 14, 15, 16>>
                \o f.pe \o f.entries \o f.esize \o <<222, 173, 190, 239>>
    IN  head \o [i \in 1..420 |-> IF f.tail = 91 + i THEN 1 ELSE 0]

\* a + 1 for a 4-byte number a, wrapping: a stored CRC that is not the CRC
WrongCrc(a) == wrapping_add(a, U32(1))

MkHeader(f) ==
    LET body == HeaderBody(f)
        n == IF Lt(U32(512), f.hsize) THEN 512 ELSE ToNat(f.hsize)
        good == checksum_ieee(body, n)
    IN  SubSeq(body, 1, 16)
        \o (IF f.crc = "good" THEN good ELSE WrongCrc(good))
        \o SubSeq(body, 21, 512)

Gates ==
    {"sig", "rev", "hsize", "crc", "resv", "cur", "backwards", "pe",
     "esize", "low", "tail"}

\* the base header with the gates of G made to fail
Failing(G) ==
    [BaseFields EXCEPT
       !.sig = IF "sig" \in G THEN <<69, 70, 73, 32, 80, 65, 82, 85>> ELSE @,
       !.rev = IF "rev" \in G THEN <<0, 0, 2, 0>> ELSE @,
       !.hsize = IF "hsize" \in G THEN U32(91) ELSE @,
       !.crc = IF "crc" \in G THEN "bad" ELSE @,
       !.resv = IF "resv" \in G THEN <<0, 0, 0, 1>> ELSE @,
       !.cur = IF "cur" \in G THEN U64(2) ELSE @,
       !.fu = IF "low" \in G THEN U64(1)
              ELSE IF "backwards" \in G THEN U64(41) ELSE @,
       !.lu = IF "low" \in G /\ "backwards" \in G THEN U64(0) ELSE @,
       !.pe = IF "pe" \in G THEN U64(3) ELSE @,
       !.esize = IF "esize" \in G THEN U32(127) ELSE @,
       !.tail = IF "tail" \in G THEN 511 ELSE @]

FailingFields == { Failing(G) : G \in { S \in SUBSET Gates : Cardinality(S) <= 2 } }

\* headers that vary the usable range, the entry count and the entry size
UsableRanges ==
    { <<U64(34), U64(40)>>, <<U64(34), U64(34)>>, <<U64(2), U64Max>> }

ShapeFields ==
    { [BaseFields EXCEPT !.fu = r[1], !.lu = r[2],
                         !.entries = U32(n), !.esize = U32(es)] :
          r \in UsableRanges, n \in 0..MaxEntries, es \in {128, 256} }
    \cup
    { [BaseFields EXCEPT !.hsize = U32(512)],
      [BaseFields EXCEPT !.hsize = U32(96), !.tail = 93],
      [BaseFields EXCEPT !.tail = 92],
      \* the floor of line 82: 3 * 128 / 512 = 0
      [BaseFields EXCEPT !.fu = U64(2), !.entries = U32(3)],
      [BaseFields EXCEPT !.fu = U64(2), !.entries = U32(4)],
      [BaseFields EXCEPT !.entries = U32(0), !.esize = U32Max],
      [BaseFields EXCEPT !.entries = U32(MaxEntries + 2), !.esize = U32(256)],
      [BaseFields EXCEPT !.entries = U32Max, !.esize = U32Max,
                         !.fu = <<0, 0, 0, 0, 0, 0, 0, 128>>, !.lu = U64Max] }

\* header_size beyond the 512 bytes of the block
LongFields ==
    { [g EXCEPT !.hsize = hs] :
          g \in { BaseFields, Failing({"crc"}), Failing({"sig"}),
                  Failing({"tail"}) },
          hs \in { U32(513), U32(604), U32Max } }

BaseHeader == MkHeader(BaseFields)

\* b with bit k (bit k % 8 of the byte at offset k \div 8) flipped
FlipBit(b, k) == [b EXCEPT ![(k \div 8) + 1] = Xor8(@, 2 ^ (k % 8))]

\* every single-bit corruption of the first 92 bytes of the base header
FlippedHeaders == { FlipBit(BaseHeader, k) : k \in 0..(92 * 8 - 1) }

HeaderBlocks ==
    { MkHeader(f) : f \in FailingFields \cup ShapeFields \cup LongFields }
    \cup FlippedHeaders

\* ---- GPT entry tables ----
\* the 72 bytes of a name field holding the given UTF-16 code units
NameField(units) ==
    <<>> \o [i \in 1..72 |->
               LET u == IF (i + 1) \div 2 <= Len(units)
                        THEN units[(i + 1) \div 2] ELSE 0
               IN  IF i % 2 = 1 THEN u % 256 ELSE u \div 256]

MkEntry(type_uuid, first_lba, last_lba, units) ==
    type_uuid
    \o <<17, 18, 19, 20, 21, 22, 23, 24, 25, 26, 27, 28, 29, 30, 31, 32>>
    \o first_lba \o last_lba
    \o <<1, 0, 0, 0, 0, 0, 0, 128>>
    \o NameField(units)

TypeLinux ==
    <<175, 61, 198, 15, 131, 132, 114, 71, 142, 121, 61, 105, 216, 71, 125, 228>>

NameData == <<68, 65, 84, 65>>

EntryChoices ==
    { \* unused slot: all-zero type uuid, the other fields not zero
      MkEntry(Zeros(16), U64(5), U64(1), <<55357>>),
      MkEntry(TypeLinux, U64(34), U64(34), NameData),
      \* a surrogate pair, and units after the first zero unit
      MkEntry(TypeLinux, U64(34), U64(40), <<55357, 56832, 0, 66>>),
      \* first_lba > last_lba, both usable
      MkEntry(TypeLinux, U64(36), U64(35), NameData),
      \* first_lba one below first_usable_lba, last_lba one above
      MkEntry(TypeLinux, U64(33), U64(34), NameData),
      MkEntry(TypeLinux, U64(40), U64(41), NameData),
      MkEntry(TypeLinux, U64(1), U64(5), NameData),
      \* last_lba = 2^64 - 1, with 36 non-zero units and no terminator
      MkEntry(TypeLinux, U64(2), U64Max, [i \in 1..36 |-> 64 + i]),
      MkEntry(TypeLinux, U64(0), U64Max, NameData),
      \* an unpaired surrogate
      MkEntry(TypeLinux, U64(35), U64(36), <<65, 56832>>),
      \* a type uuid whose only non-zero byte is the last, and an empty name
      MkEntry(Zeros(15) \o <<1>>, U64(34), U64(34), <<>>) }

\* the tables of `count` entries of `size` bytes each
RECURSIVE TableSet(_, _)
TableSet(count, size) ==
    IF count = 0 THEN {<<>>}
    ELSE { e \o [i \in 1..(size - 128) |-> 170] \o t :
               e \in EntryChoices, t \in TableSet(count - 1, size) }

(***************************************************************************)
(* The state of one run of PartitionPlugin::run on one byte source         *)
(***************************************************************************)
VARIABLES
    pc,            \* the position in from_file / gpt_from_file / run
    ops,           \* the seek and read_exact calls issued on the byte source
    pos,           \* the read cursor of the byte source
    disc_header,   \* lib.rs:108
    mbr_part,      \* lib.rs:114
    lba1,          \* gpt.rs:16
    hdr,           \* gpt.rs: header_size, header_crc, ..., entry_size
    table,         \* gpt.rs:92
    gpt_part,      \* what gpt_from_file returned to from_file
    ret,           \* what from_file returned
    views          \* lib.rs:76: the builder of each partition node

vars ==
    <<pc, ops, pos, disc_header, mbr_part, lba1, hdr, table, gpt_part, ret, views>>

\* One call on the byte source: its argument, the cursor it started from (kept
\* for a read only: a seek is absolute) and whether it succeeded.
Seek(offset, ok) == [op |-> "seek", arg |-> offset, at |-> 0, ok |-> ok]

ReadExact(len, ok) == [op |-> "read_exact", arg |-> len, at |-> pos, ok |-> ok]

Init ==
    /\ pc = "from_file"
    /\ ops = <<>>
    /\ pos \in {0, 512, 1500}
    /\ disc_header = <<>>
    /\ mbr_part = <<>>
    /\ lba1 = <<>>
    /\ hdr = HeaderLocals(Zeros(92))
    /\ table = <<>>
    /\ gpt_part = NoResult
    /\ ret = NoResult
    /\ views = <<>>

\* lib.rs:107  file.seek(SeekFrom::Start(0))?
SeekBoot ==
    /\ pc = "from_file"
    /\ \/ /\ ops' = Append(ops, Seek(U64(0), TRUE))
          /\ pos' = 0 /\ pc' = "read_boot" /\ ret' = ret
       \/ /\ ops' = Append(ops, Seek(U64(0), FALSE))
          /\ pos' = pos /\ pc' = "done" /\ ret' = IoError
    /\ UNCHANGED <<disc_header, mbr_part, lba1, hdr, table, gpt_part, views>>

\* lib.rs:109  file.read_exact(&mut disc_header)?
ReadBoot ==
    /\ pc = "read_boot"
    /\ \/ /\ ops' = Append(ops, ReadExact(U64(512), TRUE))
          /\ \E sector \in BootSectors : disc_header' = sector
          /\ pos' = pos + 512 /\ pc' = "decode" /\ ret' = ret
       \/ /\ ops' = Append(ops, ReadExact(U64(512), FALSE))
          /\ disc_header' = disc_header /\ pos' = pos /\ pc' = "done"
          /\ ret' = IoError
    /\ UNCHANGED <<mbr_part, lba1, hdr, table, gpt_part, views>>

\* lib.rs:110-120
DecodeBoot ==
    /\ pc = "decode"
    /\ IF disc_header[511] # 85 \/ disc_header[512] # 170
       THEN /\ ret' = Err("Partition header not found", 0, 0)
            /\ pc' = "done" /\ mbr_part' = mbr_part
       ELSE LET m == mbr_partition_table(disc_header)
            IN  IF m.kind # "Ok"
                THEN ret' = m /\ pc' = "done" /\ mbr_part' = mbr_part
                ELSE /\ mbr_part' = m.part
                     /\ IF Len(m.part) = 1 /\ is_gpt(m.part[1])
                        THEN pc' = "gpt_from_file" /\ ret' = ret
                        ELSE pc' = "done" /\ ret' = Ok(m.part)
    /\ UNCHANGED <<ops, pos, disc_header, lba1, hdr, table, gpt_part, views>>

\* gpt.rs:14  file.seek(SeekFrom::Start(sector_size))?
GptSeek ==
    /\ pc = "gpt_from_file"
    /\ \/ /\ ops' = Append(ops, Seek(U64(SECTOR_SIZE), TRUE))
          /\ pos' = SECTOR_SIZE /\ pc' = "gpt_read_header"
          /\ gpt_part' = gpt_part
       \/ /\ ops' = Append(ops, Seek(U64(SECTOR_SIZE), FALSE))
          /\ pos' = pos /\ pc' = "gpt_return" /\ gpt_part' = IoError
    /\ UNCHANGED <<disc_header, mbr_part, lba1, hdr, table, ret, views>>

\* gpt.rs:16-17  file.read_exact(&mut lba1)?
GptReadHeader ==
    /\ pc = "gpt_read_header"
    /\ \/ /\ ops' = Append(ops, ReadExact(U64(SECTOR_SIZE), TRUE))
          /\ \E block \in HeaderBlocks : lba1' = block
          /\ pos' = pos + SECTOR_SIZE
          /\ pc' = "gpt_header" /\ gpt_part' = gpt_part
       \/ /\ ops' = Append(ops, ReadExact(U64(SECTOR_SIZE), FALSE))
          /\ lba1' = lba1 /\ pos' = pos /\ pc' = "gpt_return"
          /\ gpt_part' = IoError
    /\ UNCHANGED <<disc_header, mbr_part, hdr, table, ret, views>>

\* gpt.rs:19-90
GptHeader ==
    /\ pc = "gpt_header"
    /\ hdr' = HeaderLocals(lba1)
    /\ lba1' = HeaderBlockAfter(lba1)
    /\ LET g == gpt_header(lba1, SECTOR_SIZE)
       IN  IF g.kind = "None"
           THEN pc' = "gpt_table" /\ gpt_part' = gpt_part
           ELSE pc' = "gpt_return" /\ gpt_part' = g
    /\ UNCHANGED <<ops, pos, disc_header, mbr_part, table, ret, views>>

\* gpt.rs:92-93  vec![0u8; ...] panics with a capacity overflow above
\* isize::MAX bytes; read_exact of more than the source holds fails.
GptReadTable ==
    /\ pc = "gpt_table"
    /\ LET size == table_len(hdr.entry_size, hdr.entries)
       IN  IF Lt(IsizeMax, size)
           THEN /\ gpt_part' = Panic("capacity overflow")
                /\ pc' = "gpt_return"
                /\ UNCHANGED <<ops, pos, table>>
           ELSE \/ /\ Leq(size, U64(MaxTableBytes))
                      /\ ops' = Append(ops, ReadExact(size, TRUE))
                      /\ \E t \in IF size = U64(0) THEN {<<>>}
                                  ELSE TableSet(ToNat(hdr.entries),
                                                ToNat(hdr.entry_size)) :
                             table' = t
                      /\ pos' = pos + ToNat(size)
                      /\ pc' = "gpt_entries" /\ gpt_part' = gpt_part
                   \/ /\ size # U64(0)
                      /\ ops' = Append(ops, ReadExact(size, FALSE))
                      /\ table' = table /\ pos' = pos
                      /\ pc' = "gpt_return" /\ gpt_part' = IoError
    /\ UNCHANGED <<disc_header, mbr_part, lba1, hdr, ret, views>>

\* gpt.rs:95-141
GptEntries ==
    /\ pc = "gpt_entries"
    /\ gpt_part' = IF hdr.entries = U32(0) THEN Ok(<<>>)
                   ELSE gpt_loop(table, 0, ToNat(hdr.entries),
                                 ToNat(hdr.entry_size),
                                 hdr.first_usable_lba, hdr.last_usable_lba,
                                 <<>>)
    /\ pc' = "gpt_return"
    /\ UNCHANGED <<ops, pos, disc_header, mbr_part, lba1, hdr, table, ret, views>>

\* lib.rs:123-124  let gpt_part = gpt::gpt_from_file(file, 512)?;
FromFileReturn ==
    /\ pc = "gpt_return"
    /\ ret' = gpt_part
    /\ pc' = "done"
    /\ UNCHANGED <<ops, pos, disc_header, mbr_part, lba1, hdr, table, gpt_part,
                   views>>

\* lib.rs:72-83  one builder per partition of the table from_file returned
CreateTree ==
    /\ pc = "done"
    /\ ret.kind = "Ok"
    /\ views' = [i \in 1..Len(ret.part) |-> to_builder(ret.part[i])]
    /\ pc' = "tree"
    /\ UNCHANGED <<ops, pos, disc_header, mbr_part, lba1, hdr, table, gpt_part,
                   ret>>

Next ==
    \/ SeekBoot
    \/ ReadBoot
    \/ DecodeBoot
    \/ GptSeek
    \/ GptReadHeader
    \/ GptHeader
    \/ GptReadTable
    \/ GptEntries
    \/ FromFileReturn
    \/ CreateTree

Spec == Init /\ [][Next]_vars

(***************************************************************************)
(* What the claims speak of, read off the raw bytes of the source          *)
(***************************************************************************)
\* the boot sector has been read, and lib.rs:110-120 have run on it
BootDecoded == disc_header # <<>> /\ pc # "decode"

MagicOk == disc_header[511] = 85 /\ disc_header[512] = 170

\* byte j (from 0) of MBR slot k (from 0)
SlotByte(k, j) == disc_header[446 + 16 * k + j + 1]

StatusOk(k) == SlotByte(k, 0) \in {0, 128}

AllStatusOk == \A k \in 0..3 : StatusOk(k)

UsedSlots == { k \in 0..3 : SlotByte(k, 4) # 0 }

\* the j-th smallest element of the set S of naturals
Nth(S, j) == CHOOSE k \in S : Cardinality({ m \in S : m < k }) = j - 1

\* the Partition the spec asks for slot k
SlotPartition(k) ==
    [id |-> k + 1,
     start_sector |-> <<SlotByte(k, 8), SlotByte(k, 9), SlotByte(k, 10),
                        SlotByte(k, 11), 0, 0, 0, 0>>,
     number_of_sector |-> <<SlotByte(k, 12), SlotByte(k, 13), SlotByte(k, 14),
                            SlotByte(k, 15), 0, 0, 0, 0>>,
     mbr |-> <<[bootable |-> SlotByte(k, 0) = 128, type_code |-> SlotByte(k, 4)]>>,
     gpt |-> <<>>]

ExpectedMbrTable ==
    [j \in 1..Cardinality(UsedSlots) |-> SlotPartition(Nth(UsedSlots, j))]

\* the protective-MBR condition on the raw slots: slot 0 is the only used
\* slot, not bootable, of type 0xEE, and starts at or below sector 16384
Protective ==
    /\ UsedSlots = {0}
    /\ SlotByte(0, 0) = 0
    /\ SlotByte(0, 4) = 238
    /\ SlotByte(0, 10) = 0 /\ SlotByte(0, 11) = 0
    /\ SlotByte(0, 8) + 256 * SlotByte(0, 9) <= 16384

Returned == pc \in {"done", "tree"}

InGpt == pc \in {"gpt_from_file", "gpt_read_header", "gpt_header", "gpt_table",
                 "gpt_entries", "gpt_return"}

\* C1: on a boot sector with a valid signature and valid status bytes,
\* from_file takes the GPT path, and returns what gpt_from_file returned
\* (list or error, no fallback), exactly when the MBR table is a sole
\* protective entry; otherwise it returns the MBR table unchanged and never
\* touches the source again.
C1_SchemeSelection ==
    (BootDecoded /\ MagicOk /\ AllStatusOk) =>
        IF Protective
        THEN \/ InGpt /\ ret = NoResult
             \/ Returned /\ gpt_part # NoResult /\ ret = gpt_part
        ELSE /\ Returned
             /\ gpt_part = NoResult
             /\ ret = Ok(mbr_part)
             /\ mbr_part = ExpectedMbrTable
             /\ Len(ops) = 2

\* a sole protective entry starting at sector 16384: the GPT decoder's error
\* is what from_file returned
C1_Witness ==
    /\ BootDecoded /\ pc = "done" /\ MagicOk /\ AllStatusOk /\ Protective
    /\ SlotByte(0, 8) + 256 * SlotByte(0, 9) = 16384
    /\ ret.kind = "Err" /\ ret = gpt_part

\* C2: with four valid status bytes the MBR decoder yields one entry per
\* slot with a non-zero type code, in slot order, with id = slot index + 1
\* and the slot's start, count, bootable flag and type code.
C2_MbrTable ==
    (BootDecoded /\ MagicOk /\ AllStatusOk) =>
        /\ mbr_part = ExpectedMbrTable
        /\ Len(mbr_part) <= 4
        /\ \A j \in 1..Len(mbr_part) :
               /\ mbr_part[j].id \in { k + 1 : k \in UsedSlots }
               /\ j > 1 => mbr_part[j - 1].id < mbr_part[j].id

\* slots 1 and 3 used, 0 and 2 unused: the ids are 2 and 4
C2_Witness ==
    /\ BootDecoded /\ MagicOk /\ AllStatusOk
    /\ UsedSlots = {1, 3}
    /\ Len(mbr_part) = 2 /\ mbr_part[1].id = 2 /\ mbr_part[2].id = 4
    /\ mbr_part[2].start_sector = <<255, 255, 255, 255, 0, 0, 0, 0>>

\* C3: a status byte other than 0x00 / 0x80 in any slot, used or not, makes
\* from_file fail with the status error of the first such slot; no entry of
\* an earlier slot is returned.
C3_BadStatus ==
    (BootDecoded /\ MagicOk /\ ~AllStatusOk) =>
        LET bad == Nth({ k \in 0..3 : ~StatusOk(k) }, 1)
        IN  /\ pc = "done"
            /\ ret = Err("invalid status code in partition", bad,
                         SlotByte(bad, 0))
            /\ ret.part = <<>> /\ mbr_part = <<>>
            /\ gpt_part = NoResult
            /\ Len(ops) = 2

\* three valid used slots, then an unused slot with a bad status byte
C3_Witness ==
    /\ BootDecoded /\ MagicOk
    /\ StatusOk(0) /\ StatusOk(1) /\ StatusOk(2) /\ ~StatusOk(3)
    /\ UsedSlots = {0, 1, 2}
    /\ ret.kind = "Err" /\ ret.idx = 3

\* C4 (as claimed): every Partition from_file returns has at least one sector.
C4_SectorCountPositive ==
    (Returned /\ ret.kind = "Ok") =>
        \A j \in 1..Len(ret.part) : ret.part[j].number_of_sector # U64(0)

\* ---- the GPT header, off the block as it was read ----
\* the header block has been read and gpt.rs:19-90 have run on it
HeaderChecked ==
    /\ Len(ops) >= 4 /\ ops[4].ok
    /\ pc \in {"gpt_table", "gpt_entries", "gpt_return", "done", "tree"}

\* byte j (from 1) of the block as read: lba1 with the stored CRC put back
HeaderByte(j) == IF j \in 17..20 THEN hdr.header_crc[j - 16] ELSE lba1[j]

\* bytes [lo, hi) of the block as read, offsets from 0
HeaderField(lo, hi) == [j \in 1..(hi - lo) |-> HeaderByte(lo + j)]

OrigHeader == HeaderField(0, 512)

HSizeBeyondBlock ==
    \/ HeaderByte(15) # 0 \/ HeaderByte(16) # 0
    \/ HeaderByte(13) + 256 * HeaderByte(14) > 512

HSize == HeaderByte(13) + 256 * HeaderByte(14)

\* gate g of section 4.3 fails on the block as read
GateFails(g) ==
    CASE g = 1 -> HeaderField(0, 8) # <<69, 70, 73, 32, 80, 65, 82, 84>>
      [] g = 2 -> HeaderField(8, 12) # <<0, 0, 1, 0>>
      [] g = 3 -> /\ HeaderByte(14) = 0 /\ HeaderByte(15) = 0
                  /\ HeaderByte(16) = 0 /\ HeaderByte(13) < 92
      [] g = 4 -> \/ HSizeBeyondBlock
                  \/ hdr.header_crc # checksum_ieee(ZeroCrcField(lba1), HSize)
      [] g = 5 -> \E j \in 21..24 : HeaderByte(j) # 0
      [] g = 6 -> HeaderField(24, 32) # <<1, 0, 0, 0, 0, 0, 0, 0>>
      [] g = 7 -> Lt(HeaderField(48, 56), HeaderField(40, 48))
      [] g = 8 -> HeaderField(72, 80) # <<2, 0, 0, 0, 0, 0, 0, 0>>
      [] g = 9 -> /\ HeaderByte(86) = 0 /\ HeaderByte(87) = 0
                  /\ HeaderByte(88) = 0 /\ HeaderByte(85) < 128
      [] g = 10 -> Lt(HeaderField(40, 48),
                      FirstUsableFloor(HeaderField(84, 88),
                                       HeaderField(80, 84), 512))
      [] g = 11 -> /\ ~HSizeBeyondBlock
                   /\ \E j \in (HSize + 1)..512 : HeaderByte(j) # 0

GateMsg ==
    << "bad EFI signature", "unsupported revision", "header too short",
       "header checksum mismatch", "unsupported data in reserved field 0x0c",
       "current lba must be '1' for first header", "usable lbas are backwards?!",
       "starting lba must be '2' for first header",
       "entry size is implausibly small", "first usable lba is too low",
       "reserved header tail is not all empty" >>

FailingGates == { g \in 1..11 : GateFails(g) }

\* C7 (as claimed): whatever the header block holds, gpt_from_file ends with
\* a list or a typed error, the error being that of the first failing gate in
\* the order of section 4.3; it never ends abnormally.
C7_TypedOutcome ==
    /\ gpt_part.kind # "Panic" /\ ret.kind # "Panic"
    /\ HeaderChecked =>
          IF FailingGates # {}
          THEN /\ pc \in {"gpt_return", "done"}
               /\ gpt_part = Err(GateMsg[Nth(FailingGates, 1)], 0, 0)
          ELSE /\ gpt_part.kind \in {"None", "Ok", "Err", "Io"}
               /\ Len(ops) = 4 => pc = "gpt_table"

\* C8 (as claimed): a header past the signature, revision and header_size
\* gates whose stored CRC is not the CRC-32 of its first header_size bytes is
\* rejected with the checksum error; every single-bit corruption of the first
\* 92 bytes of an accepted header makes the decode fail with an error.
C8_ChecksumGate ==
    HeaderChecked =>
        /\ (~GateFails(1) /\ ~GateFails(2) /\ ~GateFails(3) /\ GateFails(4))
               => gpt_part = Err("header checksum mismatch", 0, 0)
        /\ OrigHeader \in FlippedHeaders => gpt_part.kind = "Err"

\* ---- the entry table, off the bytes as they were read ----
\* the entry table has been read and the loop of gpt.rs:95-139 has run
EntriesParsed ==
    /\ Len(ops) = 5 /\ ops[5].ok
    /\ pc \in {"gpt_return", "done", "tree"}

NumEntries == IF hdr.entries = U32(0) THEN 0 ELSE ToNat(hdr.entries)

\* byte j of entry i of the table
EntryByte(i, j) == table[i * ToNat(hdr.entry_size) + j + 1]

EntryField(i, lo, hi) == [j \in 1..(hi - lo) |-> EntryByte(i, lo + j - 1)]

UsedEntries == { i \in 0..(NumEntries - 1) : \E j \in 0..15 : EntryByte(i, j) # 0 }

EntryInRange(i) ==
    /\ Leq(hdr.first_usable_lba, EntryField(i, 32, 40))
    /\ Leq(EntryField(i, 32, 40), EntryField(i, 40, 48))
    /\ Leq(EntryField(i, 40, 48), hdr.last_usable_lba)

\* code unit j (from 1) of the name field of entry i
NameUnit(i, j) == EntryByte(i, 56 + 2 * (j - 1)) + 256 * EntryByte(i, 57 + 2 * (j - 1))

NameLen(i) ==
    IF \A j \in 1..36 : NameUnit(i, j) # 0 THEN 36
    ELSE (CHOOSE j \in 1..36 :
             NameUnit(i, j) = 0 /\ \A j2 \in 1..(j - 1) : NameUnit(i, j2) # 0) - 1

NameUnits(i) == [j \in 1..NameLen(i) |-> NameUnit(i, j)]

\* every surrogate of the name is half of a high-low pair
NameDecodable(i) ==
    \A j \in 1..NameLen(i) :
        /\ NameUnit(i, j) \in 55296..56319 =>
               j < NameLen(i) /\ NameUnit(i, j + 1) \in 56320..57343
        /\ NameUnit(i, j) \in 56320..57343 =>
               j > 1 /\ NameUnit(i, j - 1) \in 55296..56319

\* the UTF-16 code units of a text
RECURSIVE EncodeUtf16(_)
EncodeUtf16(chars) ==
    IF chars = <<>> THEN <<>>
    ELSE LET c == Head(chars)
         IN  (IF c < 65536 THEN <<c>>
              ELSE <<55296 + ((c - 65536) \div 1024),
                     56320 + ((c - 65536) % 1024)>>)
             \o EncodeUtf16(Tail(chars))

BadEntries == { i \in UsedEntries : ~EntryInRange(i) }

\* C5: a used entry is accepted only if first_usable_lba <= first_lba <=
\* last_lba <= last_usable_lba; one used entry out of range, at whatever
\* index, makes the whole decode an error that carries no partition, and
\* that error is the range error unless an earlier entry's name stopped
\* the decode first.
C5_EntryRange ==
    EntriesParsed =>
        /\ gpt_part.kind = "Ok" => BadEntries = {}
        /\ BadEntries # {} =>
              /\ gpt_part.kind = "Err" /\ gpt_part.part = <<>>
              /\ pc \in {"done", "tree"} => ret.kind = "Err" /\ ret.part = <<>>
              /\ pc # "tree" /\ views = <<>>
              /\ (\A i \in UsedEntries :
                     i < Nth(BadEntries, 1) => NameDecodable(i))
                    => gpt_part = Err("partition entry is out of range", 0, 0)

\* an entry accepted at index 0, then first_lba > last_lba with both usable:
\* the call has returned the error and nothing of entry 0
C5_Witness ==
    /\ EntriesParsed /\ pc = "done"
    /\ NumEntries = 2 /\ UsedEntries = {0, 1} /\ BadEntries = {1}
    /\ Leq(hdr.first_usable_lba, EntryField(1, 40, 48))
    /\ Lt(EntryField(1, 40, 48), EntryField(1, 32, 40))
    /\ Leq(EntryField(1, 32, 40), hdr.last_usable_lba)
    /\ ret = Err("partition entry is out of range", 0, 0)

\* C6: when every used entry is in range and has a decodable name, the
\* decode returns one Partition per used entry, in table order, with
\* id = entry index + 1, start_sector = first_lba, number_of_sector =
\* last_lba - first_lba + 1, and type_uuid, partition_uuid, attributes and
\* name as the entry's bytes hold them.
C6_EntryList ==
    (EntriesParsed /\ \A i \in UsedEntries : EntryInRange(i) /\ NameDecodable(i)) =>
        /\ gpt_part.kind = "Ok"
        /\ Len(gpt_part.part) = Cardinality(UsedEntries)
        /\ \A j \in 1..Len(gpt_part.part) :
              LET i == Nth(UsedEntries, j)
                  p == gpt_part.part[j]
              IN  /\ p.id = i + 1
                  /\ p.start_sector = EntryField(i, 32, 40)
                  /\ p.number_of_sector # U64(0)
                  /\ wrapping_add(p.start_sector,
                                  wrapping_sub(p.number_of_sector, U64(1)))
                        = EntryField(i, 40, 48)
                  /\ p.mbr = None /\ Len(p.gpt) = 1
                  /\ p.gpt[1].type_uuid = EntryField(i, 0, 16)
                  /\ p.gpt[1].partition_uuid = EntryField(i, 16, 32)
                  /\ p.gpt[1].attributes = EntryField(i, 48, 56)
                  /\ EncodeUtf16(p.gpt[1].name) = NameUnits(i)
        /\ pc \in {"done", "tree"} => ret = gpt_part

\* an unused slot 0 and a used slot 1 named "DATA": one Partition, id 2
C6_Witness ==
    /\ EntriesParsed /\ pc = "done"
    /\ NumEntries = 2 /\ UsedEntries = {1}
    /\ ret.kind = "Ok" /\ Len(ret.part) = 1
    /\ ret.part[1].id = 2
    /\ ret.part[1].gpt[1].name = <<68, 65, 84, 65>>
    /\ NameLen(1) = 4

\* ---- the views of the tree ----
\* C9 (as claimed): the view of every emitted Partition is count * 512 bytes
\* long and its byte 0 is byte start * 512 of the source, neither product
\* wrapping.
C9_ViewRange ==
    pc = "tree" =>
        /\ Len(views) = Len(ret.part)
        /\ \A i \in 1..Len(views) :
              LET p == ret.part[i]
                  v == views[i]
              IN  /\ ~mul_overflows(p.start_sector, 512)
                  /\ ~mul_overflows(p.number_of_sector, 512)
                  /\ v.offset = wrapping_mul(p.start_sector, 512)
                  /\ wrapping_sub(v.range_end, v.range_start)
                        = wrapping_mul(p.number_of_sector, 512)

\* ---- the operations on the byte source ----
\* the k-th operation from_file can issue, the table read sized off the
\* header block
ExpectedOp(k) ==
    CASE k = 1 -> [op |-> "seek", arg |-> U64(0), at |-> 0]
      [] k = 2 -> [op |-> "read_exact", arg |-> U64(512), at |-> 0]
      [] k = 3 -> [op |-> "seek", arg |-> U64(512), at |-> 0]
      [] k = 4 -> [op |-> "read_exact", arg |-> U64(512), at |-> 512]
      [] k = 5 -> [op |-> "read_exact",
                   arg |-> MulWide(HeaderField(84, 88), HeaderField(80, 84)),
                   at |-> 1024]

\* C10: the operations on the byte source are a prefix of seek(0),
\* read_exact(512), seek(512), read_exact(512), read_exact(entry_size *
\* entries); the third is reached only on a boot sector with the signature,
\* a decodable MBR and a sole protective entry; the fifth only on a header
\* that passes every gate, and it starts at byte 1024; an operation that
\* fails is the last one, and the call then returns the I/O error and no list.
C10_SourceOps ==
    /\ Len(ops) <= 5
    /\ \A k \in 1..Len(ops) :
          /\ ops[k].op = ExpectedOp(k).op
          /\ ops[k].arg = ExpectedOp(k).arg
          /\ ops[k].op = "read_exact" => ops[k].at = ExpectedOp(k).at
          /\ k < Len(ops) => ops[k].ok
    /\ Len(ops) >= 3 => MagicOk /\ AllStatusOk /\ Protective
    /\ Len(ops) = 5 =>
          /\ \A g \in 1..11 : ~GateFails(g)
          /\ HeaderField(72, 80) = U64(2)
    /\ (Len(ops) > 0 /\ ~ops[Len(ops)].ok) =>
          /\ pc \in {"gpt_return", "done"}
          /\ Len(ops) >= 3 => gpt_part = IoError
          /\ pc = "done" => ret = IoError
          /\ ret.part = <<>> /\ gpt_part.part = <<>> /\ views = <<>>
    /\ Returned => (ret.kind = "Io" <=> ~ops[Len(ops)].ok)

\* the read of a two-entry table of 256-byte entries failed: five
\* operations, the last at byte 1024, and the call returned the I/O error
C10_Witness ==
    /\ pc = "done" /\ Len(ops) = 5 /\ ~ops[5].ok
    /\ ops[5].arg = U64(512) /\ ops[5].at = 1024
    /\ hdr.entry_size = U32(256)
    /\ ret = IoError

=============================================================================
